---- MODULE Spec2Model ----
(***************************************************************************)
(* The field-value resolution engine of src/mappingLoader.js:              *)
(* buildFieldValues resolves every entry of a mapping definition against   *)
(* a context and collects the values that are neither null nor undefined.  *)
(*                                                                         *)
(* JavaScript values are tagged records; strings are sequences of          *)
(* one-character strings, so that trim, toLowerCase, toUpperCase, split,   *)
(* join and String() are computed character by character.                  *)
(***************************************************************************)
EXTENDS Integers, Sequences, FiniteSets, TLC

VARIABLES mappingConfig, context, pc, idx, output

vars == <<mappingConfig, context, pc, idx, output>>

(***************************************************************************)
(* JavaScript values.  Each type has its own payload field, so two values  *)
(* of different types are unequal records.  An object is the sequence of   *)
(* its own properties <<key, value>> in insertion order.  A structured     *)
(* mapping entry is an object whose sixteen known keys are the fields of   *)
(* the record; a key that is absent reads as undefined, as in the code.    *)
(***************************************************************************)
Undef == [t |-> "undefined"]

Null == [t |-> "null"]

Bool(b) == [t |-> "boolean", b |-> b]

Num(n) == [t |-> "number", n |-> n]

Str(s) == [t |-> "string", s |-> s]

Arr(a) == [t |-> "array", a |-> a]

Obj(o) == [t |-> "object", o |-> o]

EmptyEntry ==
  [t |-> "entry", value |-> Undef, paths |-> Undef, path |-> Undef, join |-> Undef,
   format |-> Undef, prefix |-> Undef, suffix |-> Undef, trim |-> Undef,
   type |-> Undef, equals |-> Undef, truthyValues |-> Undef, map |-> Undef,
   caseInsensitive |-> Undef, uppercase |-> Undef, lowercase |-> Undef,
   default |-> Undef]

\* value === undefined || value === null
IsNullish(v) == v.t \in {"undefined", "null"}

\* typeof v
TypeOf(v) == IF v.t \in {"null", "array", "object", "entry"} THEN "object" ELSE v.t

\* ToBoolean: the truthiness the code's `!x`, `x &&`, `x ?` and Boolean(x) test
Truthy(v) ==
  CASE v.t = "undefined" -> FALSE
    [] v.t = "null" -> FALSE
    [] v.t = "boolean" -> v.b
    [] v.t = "number" -> v.n # 0
    [] v.t = "string" -> Len(v.s) > 0
    [] OTHER -> TRUE

\* a === b (objects compare by reference: a mapping's object is never a context's)
StrictEq(a, b) == a.t \notin {"array", "object", "entry"} /\ a = b

(***************************************************************************)
(* Strings                                                                 *)
(***************************************************************************)
Uppers == <<"A", "B", "C", "D", "E", "F", "G", "H", "I", "J", "K", "L", "M",
            "N", "O", "P", "Q", "R", "S", "T", "U", "V", "W", "X", "Y", "Z">>

Lowers == <<"a", "b", "c", "d", "e", "f", "g", "h", "i", "j", "k", "l", "m",
            "n", "o", "p", "q", "r", "s", "t", "u", "v", "w", "x", "y", "z">>

Digits == <<"0", "1", "2", "3", "4", "5", "6", "7", "8", "9">>

Whitespace == {" ", "\t", "\n"}

Min(S) == CHOOSE x \in S : \A y \in S : x <= y

Max(S) == CHOOSE x \in S : \A y \in S : x >= y

LowerChar(c) ==
  IF \E i \in 1..Len(Uppers) : Uppers[i] = c
  THEN Lowers[CHOOSE i \in 1..Len(Uppers) : Uppers[i] = c]
  ELSE c

UpperChar(c) ==
  IF \E i \in 1..Len(Lowers) : Lowers[i] = c
  THEN Uppers[CHOOSE i \in 1..Len(Lowers) : Lowers[i] = c]
  ELSE c

\* String.prototype.toLowerCase
toLowerCase(s) == [i \in 1..Len(s) |-> LowerChar(s[i])]

\* String.prototype.toUpperCase
toUpperCase(s) == [i \in 1..Len(s) |-> UpperChar(s[i])]

\* String.prototype.trim (the white space of the model is space, tab and newline)
trim(s) ==
  LET kept == {i \in 1..Len(s) : s[i] \notin Whitespace}
  IN IF kept = {} THEN <<>> ELSE SubSeq(s, Min(kept), Max(kept))

\* String.prototype.split('.')
RECURSIVE split(_)
split(s) ==
  LET dots == {i \in 1..Len(s) : s[i] = "."}
  IN IF dots = {} THEN <<s>>
     ELSE <<SubSeq(s, 1, Min(dots) - 1)>> \o split(SubSeq(s, Min(dots) + 1, Len(s)))

\* String(n) of a non-negative integer
RECURSIVE NumToStr(_)
NumToStr(n) ==
  IF n < 10 THEN <<Digits[n + 1]>>
  ELSE NumToStr(n \div 10) \o <<Digits[(n % 10) + 1]>>

\* String(v), also the conversion of a template literal and of a property key.
\* join(a, sep) is Array.prototype.join: null and undefined elements give "".
RECURSIVE String(_), join(_, _)
String(v) ==
  CASE v.t = "undefined" -> <<"u", "n", "d", "e", "f", "i", "n", "e", "d">>
    [] v.t = "null" -> <<"n", "u", "l", "l">>
    [] v.t = "boolean" -> IF v.b THEN <<"t", "r", "u", "e">> ELSE <<"f", "a", "l", "s", "e">>
    [] v.t = "number" -> NumToStr(v.n)
    [] v.t = "string" -> v.s
    [] v.t = "array" -> join(v.a, <<",">>)
    [] OTHER -> <<"[", "o", "b", "j", "e", "c", "t", " ", "O", "b", "j", "e", "c", "t", "]">>

join(a, sep) ==
  IF Len(a) = 0 THEN <<>>
  ELSE LET first == IF IsNullish(a[1]) THEN <<>> ELSE String(a[1])
       IN IF Len(a) = 1 THEN first ELSE first \o sep \o join(Tail(a), sep)

(***************************************************************************)
(* Own properties                                                          *)
(***************************************************************************)
\* the array index a property key denotes, -1 if none (indices below ten)
IndexOf(key) ==
  IF Len(key) = 1 /\ \E d \in 1..Len(Digits) : Digits[d] = key[1]
  THEN (CHOOSE d \in 1..Len(Digits) : Digits[d] = key[1]) - 1
  ELSE -1

LENGTH == <<"l", "e", "n", "g", "t", "h">>

\* the elements of an array or the characters of a string, as values
Elements(v) == IF v.t = "array" THEN v.a ELSE [i \in 1..Len(v.s) |-> Str(<<v.s[i]>>)]

\* Object.prototype.hasOwnProperty.call(v, key) for a truthy v
HasOwn(v, key) ==
  CASE v.t = "object" -> \E i \in 1..Len(v.o) : v.o[i][1] = key
    [] v.t \in {"array", "string"} ->
         key = LENGTH \/ (IndexOf(key) >= 0 /\ IndexOf(key) < Len(Elements(v)))
    [] OTHER -> FALSE

\* v[key] where v has key as an own property
GetOwn(v, key) ==
  CASE v.t = "object" -> v.o[CHOOSE i \in 1..Len(v.o) : v.o[i][1] = key][2]
    [] OTHER -> IF key = LENGTH THEN Num(Len(Elements(v)))
                ELSE Elements(v)[IndexOf(key) + 1]

\* o[key] of a plain object o (keys of Object.prototype are outside the model)
Get(o, key) == IF HasOwn(o, key) THEN GetOwn(o, key) ELSE Undef

\* o[key] = value on a plain object o (the key "__proto__" is outside the model)
Put(o, key, value) ==
  IF HasOwn(o, key)
  THEN Obj([i \in 1..Len(o.o) |-> IF o.o[i][1] = key THEN <<key, value>> ELSE o.o[i]])
  ELSE Obj(Append(o.o, <<key, value>>))

\* Object.fromEntries(pairs)
RECURSIVE fromEntries(_)
fromEntries(pairs) ==
  IF Len(pairs) = 0 THEN Obj(<<>>)
  ELSE LET last == pairs[Len(pairs)]
       IN Put(fromEntries(SubSeq(pairs, 1, Len(pairs) - 1)), last[1], last[2])

\* Object.entries(v) of an object or an array
entries(v) ==
  IF v.t = "array" THEN [i \in 1..Len(v.a) |-> <<NumToStr(i - 1), v.a[i]>>]
  ELSE v.o

\* the set of own keys of a plain object
Keys(o) == {o.o[i][1] : i \in 1..Len(o.o)}

(***************************************************************************)
(* getPathValue                                                            *)
(***************************************************************************)
\* walk that returns what it has reached when a segment is missing
RECURSIVE walkPartial(_, _)
walkPartial(current, segments) ==
  IF Len(segments) = 0 THEN current
  ELSE IF Truthy(current) /\ HasOwn(current, Head(segments))
       THEN walkPartial(GetOwn(current, Head(segments)), Tail(segments))
       ELSE current

\* lines 122-130
RECURSIVE walk(_, _)
walk(current, segments) ==
  IF Len(segments) = 0 THEN current
  ELSE IF Truthy(current) /\ HasOwn(current, Head(segments))
       THEN walk(GetOwn(current, Head(segments)), Tail(segments))
       ELSE Undef

getPathValue(source, pathExpression) ==
  IF ~Truthy(source) \/ ~Truthy(pathExpression) THEN Undef
  ELSE walk(source, split(pathExpression.s))

(***************************************************************************)
(* formatValue and formatDate.  new Date(value) is modelled for the inputs *)
(* of the model: a number or boolean is a count of milliseconds since      *)
(* 1970-01-01, a string is a date when it has the form YYYY-MM-DD with a   *)
(* month 1..12 and a day of that month, an array is its String(), and any  *)
(* other value is an invalid date.  getDate, getMonth and getFullYear are  *)
(* read in the UTC time zone.                                              *)
(***************************************************************************)
DATE_DDMMYYYY == <<"D", "A", "T", "E", "_", "D", "D", "M", "M", "Y", "Y", "Y", "Y">>

DATE_ISO == <<"D", "A", "T", "E", "_", "I", "S", "O">>

InvalidDate == [valid |-> FALSE, y |-> 0, m |-> 0, d |-> 0]

IsDigit(c) == \E d \in 1..Len(Digits) : Digits[d] = c

DigitOf(c) == (CHOOSE d \in 1..Len(Digits) : Digits[d] = c) - 1

\* the number a string of digits denotes
RECURSIVE StrToNum(_)
StrToNum(s) ==
  IF Len(s) = 0 THEN 0
  ELSE 10 * StrToNum(SubSeq(s, 1, Len(s) - 1)) + DigitOf(s[Len(s)])

DaysInMonth(y, m) ==
  IF m = 2 THEN (IF (y % 4 = 0 /\ y % 100 # 0) \/ y % 400 = 0 THEN 29 ELSE 28)
  ELSE IF m \in {4, 6, 9, 11} THEN 30 ELSE 31

\* Date.parse of a string
parseDate(s) ==
  IF /\ Len(s) = 10
     /\ s[5] = "-"
     /\ s[8] = "-"
     /\ \A i \in {1, 2, 3, 4, 6, 7, 9, 10} : IsDigit(s[i])
  THEN LET y == StrToNum(SubSeq(s, 1, 4))
           m == StrToNum(SubSeq(s, 6, 7))
           d == StrToNum(SubSeq(s, 9, 10))
       IN IF m \in 1..12 /\ d >= 1 /\ d <= DaysInMonth(y, m)
          THEN [valid |-> TRUE, y |-> y, m |-> m, d |-> d]
          ELSE InvalidDate
  ELSE InvalidDate

\* new Date(value)
newDate(value) ==
  CASE value.t = "number" ->
         [valid |-> TRUE, y |-> 1970, m |-> 1, d |-> 1 + (value.n \div 86400000)]
    [] value.t = "boolean" -> [valid |-> TRUE, y |-> 1970, m |-> 1, d |-> 1]
    [] value.t \in {"string", "array"} -> parseDate(String(value))
    [] OTHER -> InvalidDate

\* String(n).padStart(2, '0')
padStart2(n) == IF n < 10 THEN <<"0">> \o NumToStr(n) ELSE NumToStr(n)

\* pattern.replace(/DD|MM|YYYY/g, (match) => components[match])
RECURSIVE replaceComponents(_, _)
replaceComponents(pattern, date) ==
  IF Len(pattern) = 0 THEN <<>>
  ELSE IF Len(pattern) >= 2 /\ SubSeq(pattern, 1, 2) = <<"D", "D">>
       THEN padStart2(date.d) \o replaceComponents(SubSeq(pattern, 3, Len(pattern)), date)
  ELSE IF Len(pattern) >= 2 /\ SubSeq(pattern, 1, 2) = <<"M", "M">>
       THEN padStart2(date.m) \o replaceComponents(SubSeq(pattern, 3, Len(pattern)), date)
  ELSE IF Len(pattern) >= 4 /\ SubSeq(pattern, 1, 4) = <<"Y", "Y", "Y", "Y">>
       THEN NumToStr(date.y) \o replaceComponents(SubSeq(pattern, 5, Len(pattern)), date)
  ELSE <<Head(pattern)>> \o replaceComponents(Tail(pattern), date)

\* formatDate without the test of line 185: an invalid date is formatted too, its
\* components being NaN
formatDateOfInvalid(value, pattern) ==
  LET date == newDate(value)
  IN IF ~date.valid THEN Str(<<"N", "a", "N", ".", "N", "a", "N", ".", "N", "a", "N">>)
     ELSE Str(replaceComponents(pattern, date))

formatDate(value, pattern) ==
  LET date == newDate(value)
  IN IF ~date.valid THEN value ELSE Str(replaceComponents(pattern, date))

formatValue(value, format) ==
  IF IsNullish(value) \/ value = Str(<<>>) THEN value
  ELSE CASE format = Str(DATE_DDMMYYYY) ->
              formatDate(value, <<"D", "D", ".", "M", "M", ".", "Y", "Y", "Y", "Y">>)
         [] format = Str(DATE_ISO) ->
              formatDate(value, <<"Y", "Y", "Y", "Y", "-", "M", "M", "-", "D", "D">>)
         [] OTHER -> value

(***************************************************************************)
(* buildFromPaths                                                          *)
(***************************************************************************)
\* the callback of paths.map
resolvePathDef(pathDef, context_) ==
  IF TypeOf(pathDef) = "string" THEN getPathValue(context_, pathDef)
  ELSE IF pathDef.t = "entry" /\ Truthy(pathDef.path)
       THEN LET value == getPathValue(context_, pathDef.path)
            IN IF Truthy(pathDef.format) THEN formatValue(value, pathDef.format) ELSE value
       ELSE Null

\* Array.prototype.filter with the predicate of the code
RECURSIVE filterValues(_)
filterValues(values) ==
  IF Len(values) = 0 THEN <<>>
  ELSE IF ~IsNullish(Head(values)) /\ Head(values) # Str(<<>>)
       THEN <<Head(values)>> \o filterValues(Tail(values))
       ELSE filterValues(Tail(values))

\* buildFromPaths without the test of line 110: an empty string when nothing remains
buildFromPathsEmptyString(paths, joiner_, context_) ==
  LET joiner == IF joiner_ = Undef THEN Str(<<"\n">>) ELSE joiner_
      values == filterValues([i \in 1..Len(paths.a) |-> resolvePathDef(paths.a[i], context_)])
  IN IF Truthy(joiner) THEN Str(join(values, String(joiner)))
     ELSE Str(join(values, <<>>))

\* joiner_ is the argument; an undefined argument takes the default '\n'
buildFromPaths(paths, joiner_, context_) ==
  LET joiner == IF joiner_ = Undef THEN Str(<<"\n">>) ELSE joiner_
      values == filterValues([i \in 1..Len(paths.a) |-> resolvePathDef(paths.a[i], context_)])
  IN IF Len(values) = 0 THEN Null
     ELSE IF Truthy(joiner) THEN Str(join(values, String(joiner)))
          ELSE Str(join(values, <<>>))

(***************************************************************************)
(* resolveCheckbox and resolveRadio                                        *)
(***************************************************************************)
CHECKBOX == <<"c", "h", "e", "c", "k", "b", "o", "x">>

RADIO == <<"r", "a", "d", "i", "o">>

\* resolveCheckbox whose last rule tests presence instead of truthiness
resolveCheckboxPresence(value, entry) ==
  IF entry.equals # Undef THEN Bool(StrictEq(value, entry.equals))
  ELSE IF Truthy(entry.truthyValues) /\ ~IsNullish(value)
       THEN LET compareValue == toLowerCase(String(value))
            IN Bool(\E i \in 1..Len(entry.truthyValues.a) :
                      toLowerCase(entry.truthyValues.a[i].s) = compareValue)
       ELSE Bool(~IsNullish(value))

\* resolveCheckbox that looks at truthyValues before equals
resolveCheckboxTruthyFirst(value, entry) ==
  IF Truthy(entry.truthyValues) /\ ~IsNullish(value)
  THEN LET compareValue == toLowerCase(String(value))
       IN Bool(\E i \in 1..Len(entry.truthyValues.a) :
                 toLowerCase(entry.truthyValues.a[i].s) = compareValue)
  ELSE IF entry.equals # Undef THEN Bool(StrictEq(value, entry.equals))
  ELSE Bool(Truthy(value))

\* lines 133-144
resolveCheckbox(value, entry) ==
  IF entry.equals # Undef THEN Bool(StrictEq(value, entry.equals))
  ELSE IF Truthy(entry.truthyValues) /\ ~IsNullish(value)
       THEN LET compareValue == toLowerCase(String(value))
            IN Bool(\E i \in 1..Len(entry.truthyValues.a) :
                      toLowerCase(entry.truthyValues.a[i].s) = compareValue)
       ELSE Bool(Truthy(value))

\* the map of resolveRadio with its keys lower-cased
normalizedMap(entry) ==
  LET source == IF Truthy(entry.map) THEN entry.map ELSE Obj(<<>>)
  IN fromEntries([i \in 1..Len(source.o) |->
                    <<toLowerCase(source.o[i][1]), source.o[i][2]>>])

\* resolveRadio with the exact lookup ahead of the case-insensitive one
resolveRadioExactFirst(value, entry) ==
  IF IsNullish(value) THEN (IF IsNullish(entry.default) THEN Null ELSE entry.default)
  ELSE IF Truthy(entry.map) /\ Get(entry.map, String(value)) # Undef
       THEN Get(entry.map, String(value))
  ELSE IF /\ Truthy(entry.caseInsensitive)
          /\ TypeOf(value) = "string"
          /\ Truthy(Get(normalizedMap(entry), toLowerCase(value.s)))
       THEN Get(normalizedMap(entry), toLowerCase(value.s))
  ELSE IF IsNullish(entry.default) THEN value ELSE entry.default

\* lines 146-166
resolveRadio(value, entry) ==
  IF IsNullish(value) THEN (IF IsNullish(entry.default) THEN Null ELSE entry.default)
  ELSE IF /\ Truthy(entry.caseInsensitive)
          /\ TypeOf(value) = "string"
          /\ Truthy(Get(normalizedMap(entry), toLowerCase(value.s)))
       THEN Get(normalizedMap(entry), toLowerCase(value.s))
  ELSE IF Truthy(entry.map) /\ Get(entry.map, String(value)) # Undef
       THEN Get(entry.map, String(value))
  ELSE IF IsNullish(entry.default) THEN value ELSE entry.default

(***************************************************************************)
(* resolveEntry                                                            *)
(***************************************************************************)
\* lines 45-51: the value of `paths`, else of `path`, else null
baseValue(entry, context_) ==
  IF Truthy(entry.paths) THEN buildFromPaths(entry.paths, entry.join, context_)
  ELSE IF Truthy(entry.path) THEN getPathValue(context_, entry.path)
  ELSE Null

\* lines 53-55
applyFormat(value, entry) ==
  IF Truthy(entry.format) THEN formatValue(value, entry.format) ELSE value

\* applyPrefix without the test of the value: a missing value is prefixed too
applyPrefixAlways(value, entry) ==
  IF Truthy(entry.prefix) THEN Str(String(entry.prefix) \o String(value)) ELSE value

\* lines 57-59
applyPrefix(value, entry) ==
  IF Truthy(entry.prefix) /\ Truthy(value)
  THEN Str(String(entry.prefix) \o String(value))
  ELSE value

\* lines 61-63
applySuffix(value, entry) ==
  IF Truthy(entry.suffix) /\ Truthy(value)
  THEN Str(String(value) \o String(entry.suffix))
  ELSE value

\* applyTrim with the test `entry.trim === true`: no trimming unless asked for
applyTrimOptIn(value, entry) ==
  IF entry.trim = Bool(TRUE) /\ TypeOf(value) = "string" THEN Str(trim(value.s)) ELSE value

\* lines 65-67
applyTrim(value, entry) ==
  IF entry.trim # Bool(FALSE) /\ TypeOf(value) = "string" THEN Str(trim(value.s)) ELSE value

\* the value that reaches the switch on entry.type
typedInput(entry, context_) ==
  applyTrim(applySuffix(applyPrefix(applyFormat(baseValue(entry, context_), entry), entry), entry), entry)

\* applyCase with `else if` for lowercase: uppercase wins when both are set
applyCaseUpperWins(value, entry) ==
  IF TypeOf(value) # "string" THEN value
  ELSE IF Truthy(entry.uppercase) THEN Str(toUpperCase(value.s))
  ELSE IF Truthy(entry.lowercase) THEN Str(toLowerCase(value.s))
  ELSE value

\* lines 78-84
applyCase(value, entry) ==
  LET upper == IF Truthy(entry.uppercase) /\ TypeOf(value) = "string"
               THEN Str(toUpperCase(value.s)) ELSE value
  IN IF Truthy(entry.lowercase) /\ TypeOf(upper) = "string"
     THEN Str(toLowerCase(upper.s)) ELSE upper

\* applyDefault with the test `value === ''` alone: no default for a missing value
applyDefaultEmptyOnly(value, entry) ==
  IF value = Str(<<>>) /\ entry.default # Undef THEN entry.default ELSE value

\* lines 86-90
applyDefault(value, entry) ==
  IF (IsNullish(value) \/ value = Str(<<>>)) /\ entry.default # Undef
  THEN entry.default
  ELSE value

\* resolveEntry with the test `if (entry.value)`: a falsy explicit value falls through
resolveEntryTruthyValue(entry, context_) ==
  IF IsNullish(entry) THEN entry
  ELSE IF TypeOf(entry) = "string" THEN getPathValue(context_, entry)
  ELSE IF TypeOf(entry) # "object" THEN entry
  ELSE IF Truthy(entry.value) THEN entry.value
  ELSE LET value == typedInput(entry, context_)
       IN CASE entry.type = Str(CHECKBOX) -> resolveCheckbox(value, entry)
            [] entry.type = Str(RADIO) -> resolveRadio(value, entry)
            [] OTHER -> applyDefault(applyCase(value, entry), entry)

\* resolveEntry with the uppercase and lowercase steps ahead of the switch on type
resolveEntryCaseFirst(entry, context_) ==
  IF IsNullish(entry) THEN entry
  ELSE IF TypeOf(entry) = "string" THEN getPathValue(context_, entry)
  ELSE IF TypeOf(entry) # "object" THEN entry
  ELSE IF entry.value # Undef THEN entry.value
  ELSE LET value == applyCase(typedInput(entry, context_), entry)
       IN CASE entry.type = Str(CHECKBOX) -> resolveCheckbox(value, entry)
            [] entry.type = Str(RADIO) -> resolveRadio(value, entry)
            [] OTHER -> applyDefault(value, entry)

resolveEntry(entry, context_) ==
  IF IsNullish(entry) THEN entry
  ELSE IF TypeOf(entry) = "string" THEN getPathValue(context_, entry)
  ELSE IF TypeOf(entry) # "object" THEN entry
  ELSE IF entry.value # Undef THEN entry.value
  ELSE LET value == typedInput(entry, context_)
       IN CASE entry.type = Str(CHECKBOX) -> resolveCheckbox(value, entry)
            [] entry.type = Str(RADIO) -> resolveRadio(value, entry)
            [] OTHER -> applyDefault(applyCase(value, entry), entry)

(***************************************************************************)
(* buildFieldValues, one pass per element of DOMAIN pc.  A pass is at      *)
(* "call" before the function is entered, at "loop" inside the for loop    *)
(* (idx is the position in Object.entries(mappingConfig)), and ends at     *)
(* "returned" (output is the returned object) or at "threw" (no output).   *)
(***************************************************************************)
Passes == DOMAIN pc

\* assign with the test `if (value)`: an empty string is dropped too
assignTruthy(out, fieldName, value) ==
  IF Truthy(value) THEN Put(out, fieldName, value) ELSE out

\* lines 21-23
assign(out, fieldName, value) ==
  IF value # Undef /\ value # Null THEN Put(out, fieldName, value) ELSE out

\* the test of line 14
isMapping(config) == Truthy(config) /\ TypeOf(config) = "object"

\* Reject with a guard on the context as well: a missing context may throw
RejectMissingContext(p) ==
  /\ pc[p] = "call"
  /\ ~isMapping(mappingConfig[p]) \/ IsNullish(context[p])
  /\ pc' = [pc EXCEPT ![p] = "threw"]
  /\ UNCHANGED <<mappingConfig, context, idx, output>>

\* lines 14-16: throw new Error('Mapping config must be an object.')
Reject(p) ==
  /\ pc[p] = "call"
  /\ ~isMapping(mappingConfig[p])
  /\ pc' = [pc EXCEPT ![p] = "threw"]
  /\ UNCHANGED <<mappingConfig, context, idx, output>>

\* Enter with an output object that outlives the call: a pass starts from what
\* another pass has collected
EnterKeepingOutput(p) ==
  /\ pc[p] = "call"
  /\ isMapping(mappingConfig[p])
  /\ pc' = [pc EXCEPT ![p] = "loop"]
  /\ idx' = [idx EXCEPT ![p] = 1]
  /\ output' = [output EXCEPT ![p] =
                  IF \E q \in Passes \ {p} : output[q] # Undef
                  THEN output[CHOOSE q \in Passes \ {p} : output[q] # Undef]
                  ELSE Obj(<<>>)]
  /\ UNCHANGED <<mappingConfig, context>>

\* line 18: const output = {}
Enter(p) ==
  /\ pc[p] = "call"
  /\ isMapping(mappingConfig[p])
  /\ pc' = [pc EXCEPT ![p] = "loop"]
  /\ idx' = [idx EXCEPT ![p] = 1]
  /\ output' = [output EXCEPT ![p] = Obj(<<>>)]
  /\ UNCHANGED <<mappingConfig, context>>

\* Iterate that returns the output at the first field without a value
IterateUntilMissing(p) ==
  /\ pc[p] = "loop"
  /\ idx[p] <= Len(entries(mappingConfig[p]))
  /\ LET field == entries(mappingConfig[p])[idx[p]]
         value == resolveEntry(field[2], context[p])
     IN /\ output' = [output EXCEPT ![p] = assign(@, field[1], value)]
        /\ pc' = [pc EXCEPT ![p] = IF IsNullish(value) THEN "returned" ELSE @]
  /\ idx' = [idx EXCEPT ![p] = @ + 1]
  /\ UNCHANGED <<mappingConfig, context>>

\* lines 19-24: one iteration of the loop
Iterate(p) ==
  /\ pc[p] = "loop"
  /\ idx[p] <= Len(entries(mappingConfig[p]))
  /\ LET field == entries(mappingConfig[p])[idx[p]]
         value == resolveEntry(field[2], context[p])
     IN output' = [output EXCEPT ![p] = assign(@, field[1], value)]
  /\ idx' = [idx EXCEPT ![p] = @ + 1]
  /\ UNCHANGED <<mappingConfig, context, pc>>

\* line 25: return output
Return(p) ==
  /\ pc[p] = "loop"
  /\ idx[p] > Len(entries(mappingConfig[p]))
  /\ pc' = [pc EXCEPT ![p] = "returned"]
  /\ UNCHANGED <<mappingConfig, context, idx, output>>

\* lines 18-25 as a function: the output of the whole loop
RECURSIVE collect(_, _, _)
collect(fields, context_, out) ==
  IF Len(fields) = 0 THEN out
  ELSE collect(Tail(fields), context_,
               assign(out, Head(fields)[1], resolveEntry(Head(fields)[2], context_)))

buildFieldValues(config, context_) == collect(entries(config), context_, Obj(<<>>))

Next ==
  \/ \E p \in Passes : Reject(p)
  \/ \E p \in Passes : Enter(p)
  \/ \E p \in Passes : Iterate(p)
  \/ \E p \in Passes : Return(p)

(***************************************************************************)
(* Inputs.  Two contexts with data, an empty context and the two missing   *)
(* contexts; the paths resolve to a padded string, a nested string, an     *)
(* empty string, a date, a number, null, an object, an array, or nothing.  *)
(***************************************************************************)
MaxFields == 2

Ctx1 ==
  Obj(<< <<(<<"a">>), Str(<<" ", "x", " ">>)>>,
         <<(<<"b">>), Obj(<< <<(<<"c">>), Str(<<"A">>)>> >>)>>,
         <<(<<"d">>), Str(<<>>)>>,
         <<(<<"n">>), Num(1)>>,
         <<(<<"z">>), Null>> >>)

Ctx2 ==
  Obj(<< <<(<<"a">>), Str(<<"Y", "E", "S">>)>>,
         <<(<<"b">>), Obj(<< <<(<<"c">>), Str(<<"a">>)>> >>)>>,
         <<(<<"d">>), Str(<<"2", "0", "2", "4", "-", "0", "3", "-", "0", "5">>)>>,
         <<(<<"n">>), Num(0)>>,
         <<(<<"l">>), Arr(<<Str(<<"p">>), Str(<<"q">>)>>)>>,
         <<(<<"t", "r", "a", "v", "e", "l", "e", "r">>),
           Obj(<< <<(<<"f", "i", "r", "s", "t", "N", "a", "m", "e">>), Str(<<"J", "a", "n", "e">>)>>,
                  <<(<<"l", "a", "s", "t", "N", "a", "m", "e">>), Str(<<"D", "o", "e">>)>> >>)>> >>)

Contexts == {Undef, Null, Obj(<<>>), Ctx1, Ctx2}

P_a == Str(<<"a">>)

P_bc == Str(<<"b", ".", "c">>)

P_d == Str(<<"d">>)

P_n == Str(<<"n">>)

P_z == Str(<<"z">>)

P_b == Str(<<"b">>)

\* a path no context of the model has
P_m == Str(<<"m">>)

Paths == {P_a, P_bc, P_d, P_n, P_z, P_b, P_m}

P_firstName ==
  Str(<<"t", "r", "a", "v", "e", "l", "e", "r", ".", "f", "i", "r", "s", "t", "N", "a", "m", "e">>)

P_lastName ==
  Str(<<"t", "r", "a", "v", "e", "l", "e", "r", ".", "l", "a", "s", "t", "N", "a", "m", "e">>)

P_missingKey == Str(<<"m", "i", "s", "s", "i", "n", "g", ".", "k", "e", "y">>)

\* paths that stop half-way, go through a string or an array, or have an
\* empty segment
DeepPaths ==
  {P_firstName, P_missingKey, Str(<<"b", ".", "m">>), Str(<<"b", ".", "c", ".", "m">>),
   Str(<<"a", ".", "l", "e", "n", "g", "t", "h">>), Str(<<"a", ".", "0">>),
   Str(<<"d", ".", "0">>), Str(<<"n", ".", "m">>), Str(<<"z", ".", "m">>),
   Str(<<"l">>), Str(<<"l", ".", "1">>), Str(<<"l", ".", "2">>),
   Str(<<"l", ".", "l", "e", "n", "g", "t", "h">>), Str(<<".", "a">>),
   Str(<<"b", ".", ".", "c">>), Str(<<"b", ".">>)}

S_N == Str(<<"N">>)

Flags == {Undef, Bool(TRUE)}

Types == {Undef, Str(CHECKBOX), Str(RADIO)}

\* entries that are no objects: string shorthands (also the empty string),
\* literals, null and undefined
PlainEntries == Paths \cup DeepPaths \cup {Str(<<>>), Num(5), Bool(TRUE), Null, Undef}

PathEntries ==
  {[EmptyEntry EXCEPT !.path = p, !.trim = tr, !.default = df, !.type = ty,
                      !.uppercase = up, !.lowercase = lo] :
     p \in Paths \cup {Str(<<>>)}, tr \in {Undef, Bool(FALSE)}, df \in {Undef, S_N},
     ty \in Types, up \in Flags, lo \in Flags}

FormatEntries ==
  {[EmptyEntry EXCEPT !.path = p, !.format = fm, !.prefix = pre, !.suffix = suf, !.type = ty] :
     p \in {P_a, P_d, P_n, P_m, P_b, P_z},
     fm \in {Undef, Str(DATE_ISO), Str(DATE_DDMMYYYY), Str(<<"X">>)},
     pre \in {Undef, Str(<<"p", " ">>)}, suf \in {Undef, Str(<<" ", "s">>)}, ty \in Types}

CheckboxEntries ==
  {[EmptyEntry EXCEPT !.type = Str(CHECKBOX), !.path = p, !.equals = eq,
                      !.truthyValues = tv, !.default = df] :
     p \in {P_a, P_bc, P_d, P_n, P_z, P_m},
     eq \in {Undef, Str(<<"Y", "E", "S">>), Bool(TRUE), Num(1)},
     tv \in {Undef, Arr(<<Str(<<"y", "e", "s">>), Str(<<"o", "n">>)>>),
             Arr(<<Str(<<"T", "R", "U", "E">>)>>)},
     df \in {Undef, S_N}}

S_foo == Str(<<"f", "o", "o">>)

Maps ==
  {Undef,
   Obj(<< <<(<<"A">>), S_foo>> >>),
   Obj(<< <<(<<"A">>), Str(<<>>)>> >>),
   Obj(<< <<(<<"a">>), Str(<<"x">>)>>, <<(<<"A">>), S_foo>> >>),
   Obj(<< <<(<<"A">>), S_foo>>, <<(<<"a">>), Str(<<"x">>)>> >>),
   Obj(<< <<(<<"a">>), Str(<<"x">>)>>, <<(<<"A">>), Str(<<>>)>> >>),
   Obj(<< <<(<<"1">>), Str(<<"o", "n", "e">>)>> >>)}

RadioEntries ==
  {[EmptyEntry EXCEPT !.type = Str(RADIO), !.path = p, !.caseInsensitive = ci,
                      !.map = mp, !.default = df] :
     p \in {P_a, P_bc, P_d, P_n, P_z, P_m}, ci \in Flags, mp \in Maps, df \in {Undef, S_N}}

PathLists ==
  {Arr(<<P_firstName, P_lastName>>), Arr(<<P_a, P_bc>>), Arr(<<P_m, P_z>>), Arr(<<>>), Arr(<<P_m, P_d>>),
   Arr(<<[EmptyEntry EXCEPT !.path = P_d, !.format = Str(DATE_ISO)], P_n>>)}

PathsEntries ==
  {[EmptyEntry EXCEPT !.paths = ps, !.join = jn, !.path = p, !.default = df] :
     ps \in PathLists, jn \in {Undef, Str(<<" ">>), Str(<<>>), Bool(FALSE)},
     p \in {Undef, P_a}, df \in {Undef, S_N}}

\* untyped entries with a default next to a prefix, a suffix and the case flags
DefaultEntries ==
  {[EmptyEntry EXCEPT !.path = p, !.prefix = pre, !.suffix = suf, !.uppercase = up,
                      !.default = df] :
     p \in {P_a, P_d, P_z, P_missingKey},
     pre \in {Undef, Str(<<"p", " ">>)}, suf \in {Undef, Str(<<" ", "s">>)},
     up \in Flags, df \in {Str(<<"N", "/", "A">>), Str(<<>>), Null}}

\* structured entries without an explicit value
ComputedEntries ==
  PathEntries \cup FormatEntries \cup CheckboxEntries \cup RadioEntries \cup PathsEntries
    \cup DefaultEntries

ExplicitValues == {Str(<<" ", "v", " ">>), Str(<<>>), Bool(FALSE), Null}

\* structured entries with an explicit value next to any other keys
ValueEntries == {[e EXCEPT !.value = v] : e \in ComputedEntries, v \in ExplicitValues}

Entries == PlainEntries \cup ComputedEntries \cup ValueEntries

FieldNames == {<<"f">>, <<"g">>, <<"h">>}

\* the entries of the mappings of several fields
Pool ==
  {P_a, P_d, P_m, Num(5),
   [EmptyEntry EXCEPT !.path = P_m, !.default = S_N],
   [EmptyEntry EXCEPT !.path = P_m, !.type = Str(CHECKBOX)]}

\* the property lists of at most n fields with distinct names and entries of pool
RECURSIVE FieldLists(_, _)
FieldLists(n, pool) ==
  IF n = 0 THEN {<<>>}
  ELSE LET shorter == FieldLists(n - 1, pool)
       IN shorter \cup
          UNION {{Append(q, <<name, e>>) :
                    name \in FieldNames \ {q[i][1] : i \in 1..Len(q)}, e \in pool} :
                 q \in {r \in shorter : Len(r) = n - 1}}

\* what buildFieldValues rejects: absent, or no object
NonMappings ==
  {Undef, Null, Num(0), Num(5), Str(<<>>), Str(<<"a">>), Bool(FALSE), Bool(TRUE)}

\* arrays: objects whose keys are the indices
ArrayMappings == {Arr(<<>>), Arr(<<P_a>>), Arr(<<P_m, P_a>>)}

Mappings ==
  {Obj(<< <<(<<"f">>), e>> >>) : e \in Entries}
    \cup {Obj(q) : q \in FieldLists(MaxFields, Pool)}
    \cup ArrayMappings \cup NonMappings

\* one pass over any mapping definition and context of the model
Init ==
  /\ mappingConfig \in [1..1 -> Mappings]
  /\ context \in [1..1 -> Contexts]
  /\ pc = [p \in 1..1 |-> "call"]
  /\ idx = [p \in 1..1 |-> 0]
  /\ output = [p \in 1..1 |-> Undef]

Spec == Init /\ [][Next]_vars

\* two passes over two mapping definitions and the same context
PairPool == {P_a, P_m, [EmptyEntry EXCEPT !.path = P_m, !.default = S_N]}

PairMappings == {Obj(q) : q \in FieldLists(MaxFields, PairPool)} \cup {Null}

InitPair ==
  /\ mappingConfig \in [1..2 -> PairMappings]
  /\ context \in {[p \in 1..2 |-> c] : c \in {Ctx1, Undef}}
  /\ pc = [p \in 1..2 |-> "call"]
  /\ idx = [p \in 1..2 |-> 0]
  /\ output = [p \in 1..2 |-> Undef]

SpecPair == InitPair /\ [][Next]_vars

(***************************************************************************)
(* Properties                                                              *)
(***************************************************************************)
\* Object.entries of the mapping definition of pass p (none if it is rejected)
Fields(p) == IF isMapping(mappingConfig[p]) THEN entries(mappingConfig[p]) ELSE <<>>

\* the loop of pass p has resolved field i
Resolved(p, i) == pc[p] \in {"loop", "returned"} /\ i \in 1..Len(Fields(p)) /\ i < idx[p]

\* the pairs <<p, i>> of the fields resolved so far
ResolvedFields ==
  UNION {{<<p, i>> : i \in {j \in 1..Len(Fields(p)) : Resolved(p, j)}} : p \in Passes}

FieldName(pi) == Fields(pi[1])[pi[2]][1]

FieldEntry(pi) == Fields(pi[1])[pi[2]][2]

\* the value resolved field pi has in the output, undefined when it is absent
OutputOf(pi) == Get(output[pi[1]], FieldName(pi))

IsStructured(entry) == entry.t = "entry"

\* C1: the returned output has exactly the fields whose entry resolves to a value
\* that is neither null nor undefined, each with that value (an empty string is
\* kept, null and undefined are dropped).
C1_OutputIsResolvedFields ==
  \A p \in Passes : pc[p] = "returned" =>
    LET fields == Fields(p)
        value(i) == resolveEntry(fields[i][2], context[p])
    IN /\ Keys(output[p]) = {fields[i][1] : i \in {j \in 1..Len(fields) : ~IsNullish(value(j))}}
       /\ \A i \in 1..Len(fields) :
            ~IsNullish(value(i)) => Get(output[p], fields[i][1]) = value(i)

\* a returned output that keeps an empty string and drops an unresolved field
C1_Witness ==
  \E p \in Passes :
    /\ pc[p] = "returned"
    /\ \E i, j \in 1..Len(Fields(p)) :
         /\ resolveEntry(Fields(p)[i][2], context[p]) = Str(<<>>)
         /\ Get(output[p], Fields(p)[i][1]) = Str(<<>>)
         /\ resolveEntry(Fields(p)[j][2], context[p]) = Undef
         /\ Fields(p)[j][1] \notin Keys(output[p])

\* C2: a structured entry with an explicit value resolves to exactly that value,
\* whatever its other keys are: the field is output with it (or, for an explicit
\* null, omitted).
C2_ExplicitValueShortCircuits ==
  \A pi \in ResolvedFields :
    LET entry == FieldEntry(pi)
    IN (IsStructured(entry) /\ entry.value # Undef) =>
         /\ resolveEntry(entry, context[pi[1]]) = entry.value
         /\ OutputOf(pi) = IF entry.value = Null THEN Undef ELSE entry.value

\* an explicit padded value is output untouched although the entry also has a path
\* that resolves, a default and a type
C2_Witness ==
  \E pi \in ResolvedFields :
    LET entry == FieldEntry(pi)
    IN /\ IsStructured(entry)
       /\ entry.value = Str(<<" ", "v", " ">>)
       /\ entry.path = P_a
       /\ entry.default = S_N
       /\ entry.type = Str(RADIO)
       /\ context[pi[1]] = Ctx1
       /\ OutputOf(pi) = entry.value

\* the structured entry {path: s} without modifiers
PathOnly(s) == [EmptyEntry EXCEPT !.path = s]

\* C3 (as claimed): a string entry s resolves as the structured entry {path: s}.
C3_ShorthandEqualsPathEntry ==
  \A pi \in ResolvedFields :
    LET entry == FieldEntry(pi)
    IN TypeOf(entry) = "string" =>
         resolveEntry(entry, context[pi[1]]) = resolveEntry(PathOnly(entry), context[pi[1]])

\* C3 (amended): a string entry s resolves to the untrimmed value of the path: for a
\* non-empty s that is what {path: s, trim: false} gives, and {path: s} gives the
\* same value except that a string is trimmed; for the empty s the string entry
\* gives undefined and {path: ""} gives null.
C3_ShorthandIsUntrimmedPathEntry ==
  \A pi \in ResolvedFields :
    LET entry == FieldEntry(pi)
        short == resolveEntry(entry, context[pi[1]])
        long == resolveEntry(PathOnly(entry), context[pi[1]])
        raw == resolveEntry([PathOnly(entry) EXCEPT !.trim = Bool(FALSE)], context[pi[1]])
    IN TypeOf(entry) = "string" =>
         /\ OutputOf(pi) = IF IsNullish(short) THEN Undef ELSE short
         /\ IF entry = Str(<<>>) THEN short = Undef /\ long = Null
            ELSE /\ raw = short
                 /\ long = IF TypeOf(short) = "string" THEN Str(trim(short.s)) ELSE short

\* a string entry is output with the padding that {path: s} trims
C3_Witness ==
  \E pi \in ResolvedFields :
    /\ FieldEntry(pi) = P_a
    /\ OutputOf(pi) = Str(<<" ", "x", " ">>)
    /\ resolveEntry(PathOnly(P_a), context[pi[1]]) = Str(<<"x">>)

IsCheckbox(entry) == IsStructured(entry) /\ entry.value = Undef /\ entry.type = Str(CHECKBOX)

IsRadio(entry) == IsStructured(entry) /\ entry.value = Undef /\ entry.type = Str(RADIO)

\* C4 (as claimed): resolving the output of a checkbox entry through the same entry
\* again gives the same boolean, whatever equals and truthyValues are.
C4_CheckboxIdempotent ==
  \A pi \in ResolvedFields :
    IsCheckbox(FieldEntry(pi)) =>
      resolveCheckbox(OutputOf(pi), FieldEntry(pi)) = OutputOf(pi)

\* C4 (amended): for a checkbox entry with neither equals nor truthyValues the
\* output is a boolean and resolving it again gives the same boolean.
C4_PlainCheckboxIdempotent ==
  \A pi \in ResolvedFields :
    LET entry == FieldEntry(pi)
    IN (IsCheckbox(entry) /\ entry.equals = Undef /\ ~Truthy(entry.truthyValues)) =>
         /\ OutputOf(pi).t = "boolean"
         /\ resolveCheckbox(OutputOf(pi), entry) = OutputOf(pi)

\* a plain checkbox entry whose path resolves is output as true, and true again
C4_Witness ==
  \E pi \in ResolvedFields :
    LET entry == FieldEntry(pi)
    IN /\ IsCheckbox(entry) /\ entry.equals = Undef /\ ~Truthy(entry.truthyValues)
       /\ entry.path = P_a
       /\ context[pi[1]] = Ctx2
       /\ OutputOf(pi) = Bool(TRUE)
       /\ resolveCheckbox(OutputOf(pi), entry) = Bool(TRUE)

\* the indices of the keys of map that are key when lower-cased
FoldedHits(map, key) == {i \in 1..Len(map.o) : toLowerCase(map.o[i][1]) = key}

\* C5 (as claimed): a case-insensitive radio entry whose non-null value matches a
\* key of the map after lower-casing resolves to the value mapped to that key, the
\* later-iterated key when several collide, whatever that value is.
C5_CaseInsensitiveLookup ==
  \A pi \in ResolvedFields :
    LET entry == FieldEntry(pi)
        value == typedInput(entry, context[pi[1]])
        hits == FoldedHits(entry.map, toLowerCase(String(value)))
    IN (/\ IsRadio(entry)
        /\ Truthy(entry.caseInsensitive)
        /\ Truthy(entry.map)
        /\ ~IsNullish(value)
        /\ hits # {}) =>
         resolveEntry(entry, context[pi[1]]) = entry.map.o[Max(hits)][2]

\* C6 (as claimed): a mapping definition that is absent or no mapping structure
\* (a number, a string, a boolean, an array) is rejected and gives no output.
C6_NonMappingRejected ==
  \A p \in Passes :
    mappingConfig[p].t # "object" => pc[p] \in {"call", "threw"} /\ output[p] = Undef

\* C7 (as claimed): with a missing context the pass over a mapping definition (here
\* one that is an object with fields) fails at once and returns no output.
C7_MissingContextRejected ==
  \A p \in Passes :
    (IsNullish(context[p]) /\ mappingConfig[p].t = "object" /\ Len(Fields(p)) > 0) =>
      pc[p] # "returned" /\ Keys(IF output[p] = Undef THEN Obj(<<>>) ELSE output[p]) = {}

\* C7 (amended): a missing context is no error: the pass throws only for a mapping
\* definition that is absent or no object, and otherwise returns what it returns
\* for the empty context, every path lookup yielding undefined.
C7_MissingContextIsEmptyContext ==
  \A p \in Passes :
    IsNullish(context[p]) =>
      /\ pc[p] = "threw" => mappingConfig[p] \in NonMappings
      /\ pc[p] = "returned" => output[p] = buildFieldValues(mappingConfig[p], Obj(<<>>))

\* a pass without context returns an output with a field in it
C7_Witness ==
  \E p \in Passes :
    /\ context[p] = Undef
    /\ pc[p] = "returned"
    /\ Len(Fields(p)) = 2
    /\ Keys(output[p]) # {}
    /\ Keys(output[p]) # {Fields(p)[i][1] : i \in 1..2}

\* the entry names one path (as a string entry or as `path`) the context lacks
PathMissing(entry, context_) ==
  \/ TypeOf(entry) = "string" /\ getPathValue(context_, entry) = Undef
  \/ IsStructured(entry) /\ Truthy(entry.path) /\ getPathValue(context_, entry.path) = Undef

\* C8 (as claimed): an entry whose path is missing from the context resolves to
\* undefined or null and its field is absent from the output, without a throw.
C8_MissingPathOmitted ==
  \A pi \in ResolvedFields :
    PathMissing(FieldEntry(pi), context[pi[1]]) =>
      /\ IsNullish(resolveEntry(FieldEntry(pi), context[pi[1]]))
      /\ FieldName(pi) \notin Keys(output[pi[1]])

\* C8 (amended): a missing path never makes the pass throw.  The field of a string
\* entry is absent; the field of a structured entry without explicit value and
\* without paths is false for a checkbox, else the default when that is neither
\* undefined nor null, else absent.
C8_MissingPathOmittedOrDefault ==
  /\ \A p \in Passes : pc[p] = "threw" => mappingConfig[p] \in NonMappings
  /\ \A pi \in ResolvedFields :
       LET entry == FieldEntry(pi)
       IN PathMissing(entry, context[pi[1]]) =>
            IF TypeOf(entry) = "string" THEN OutputOf(pi) = Undef
            ELSE IF entry.value # Undef \/ Truthy(entry.paths) THEN TRUE
            ELSE IF entry.type = Str(CHECKBOX) THEN OutputOf(pi) = Bool(FALSE)
            ELSE IF ~IsNullish(entry.default) THEN OutputOf(pi) = entry.default
            ELSE OutputOf(pi) = Undef

\* a missing path with a default is output as the default, next to an omitted one
C8_Witness ==
  \E p \in Passes :
    /\ pc[p] = "returned"
    /\ context[p] = Ctx1
    /\ \E i, j \in 1..Len(Fields(p)) :
         /\ Resolved(p, i) /\ Resolved(p, j)
         /\ Fields(p)[i][2] = P_m
         /\ Fields(p)[i][1] \notin Keys(output[p])
         /\ Fields(p)[j][2] = [EmptyEntry EXCEPT !.path = P_m, !.default = S_N]
         /\ Get(output[p], Fields(p)[j][1]) = S_N

\* C9: two passes over the same context give a field that both mapping definitions
\* map to the same entry the same outcome (absent in both, or the same value in
\* both), whatever their other fields are; and a pass fails only for a mapping
\* definition that is no object, never for a field that does not resolve.
C9_FieldsResolveIndependently ==
  /\ \A p \in Passes : pc[p] = "threw" => ~isMapping(mappingConfig[p])
  /\ \A p, q \in Passes :
       (pc[p] = "returned" /\ pc[q] = "returned" /\ context[p] = context[q]) =>
         \A i \in 1..Len(Fields(p)), j \in 1..Len(Fields(q)) :
           Fields(p)[i] = Fields(q)[j] =>
             Get(output[p], Fields(p)[i][1]) = Get(output[q], Fields(q)[j][1])

\* two different mapping definitions share a field that is output by both passes,
\* the second at another position and after a field that does not resolve
C9_Witness ==
  \E p, q \in Passes :
    /\ pc[p] = "returned" /\ pc[q] = "returned"
    /\ Len(Fields(p)) = 1 /\ Len(Fields(q)) = 2
    /\ Fields(p)[1] = Fields(q)[2]
    /\ Fields(q)[1][2] = P_m
    /\ Fields(q)[1][1] \notin Keys(output[q])
    /\ Get(output[p], Fields(p)[1][1]) = Str(<<" ", "x", " ">>)
    /\ Get(output[q], Fields(p)[1][1]) = Str(<<" ", "x", " ">>)

\* C10: a checkbox or radio entry resolves to resolveCheckbox or resolveRadio of the
\* value after the base value, format, prefix, suffix and trim steps; uppercase and
\* lowercase do not change the result, and a checkbox result does not depend on
\* default.
C10_TypeSupersedesCaseAndDefault ==
  \A pi \in ResolvedFields :
    LET entry == FieldEntry(pi)
        ctx == context[pi[1]]
        value == typedInput(entry, ctx)
        result == resolveEntry(entry, ctx)
    IN (IsCheckbox(entry) \/ IsRadio(entry)) =>
         /\ OutputOf(pi) = IF IsNullish(result) THEN Undef ELSE result
         /\ result = IF IsCheckbox(entry) THEN resolveCheckbox(value, entry)
                     ELSE resolveRadio(value, entry)
         /\ result = resolveEntry([entry EXCEPT !.uppercase = Undef, !.lowercase = Undef], ctx)
         /\ IsCheckbox(entry) =>
              /\ result.t = "boolean"
              /\ result = resolveEntry([entry EXCEPT !.default = Undef], ctx)

\* a radio entry with uppercase set is output in lower case, and a checkbox entry
\* with a default and a missing path is output as false
C10_Witness ==
  \E pi \in ResolvedFields :
    LET entry == FieldEntry(pi)
    IN /\ context[pi[1]] = Ctx1
       /\ \/ /\ IsRadio(entry) /\ Truthy(entry.uppercase) /\ entry.path = P_a
             /\ OutputOf(pi) = Str(<<"x">>)
          \/ /\ IsCheckbox(entry) /\ entry.default = S_N /\ entry.path = P_m
             /\ OutputOf(pi) = Bool(FALSE)

\* C11: no step of a pass changes the mapping definition or the context of any
\* pass; the output a pass returns is a function of its own mapping definition and
\* context only, whatever another pass has done in between; and two passes with equal
\* mapping definitions and equal contexts return equal outputs, in every interleaving.
C11_PureAndDeterministic ==
  /\ [][mappingConfig' = mappingConfig /\ context' = context]_vars
  /\ [](\A p \in Passes :
          pc[p] = "returned" => output[p] = buildFieldValues(mappingConfig[p], context[p]))
  /\ [](\A p, q \in Passes :
          (/\ pc[p] = "returned" /\ pc[q] = "returned"
           /\ mappingConfig[p] = mappingConfig[q] /\ context[p] = context[q]) =>
            output[p] = output[q])

\* two passes over the same mapping definition of two fields and the same context
\* have both returned the same output with a field in it
C11_Witness ==
  \E p, q \in Passes :
    /\ p # q
    /\ pc[p] = "returned" /\ pc[q] = "returned"
    /\ mappingConfig[p] = mappingConfig[q] /\ context[p] = Ctx1 /\ context[q] = Ctx1
    /\ Len(Fields(p)) = 2
    /\ Fields(p)[1][2] = P_m /\ Fields(p)[2][2] = P_a
    /\ output[p] = Obj(<< <<Fields(p)[2][1], Str(<<" ", "x", " ">>)>> >>)
    /\ output[q] = output[p]

IsPrimitive(value) == value.t \in {"string", "boolean", "number"}

\* C12: every value of the output is a string, a boolean or a number, never an
\* object or an array, for every mapping definition and every context.
C12_OutputIsFlat ==
  \A p \in Passes :
    pc[p] \in {"loop", "returned"} =>
      \A k \in Keys(output[p]) : IsPrimitive(Get(output[p], k))

\* an untyped structured entry without explicit value, with uppercase and lowercase
BothCases(entry) ==
  /\ IsStructured(entry) /\ entry.value = Undef
  /\ ~IsCheckbox(entry) /\ ~IsRadio(entry)
  /\ Truthy(entry.uppercase) /\ Truthy(entry.lowercase)

\* C13 as stated: with uppercase and lowercase both set and a string value, uppercase
\* wins: the entry resolves to the upper-cased string (entries without a default).
C13_UppercaseWins ==
  \A pi \in ResolvedFields :
    LET entry == FieldEntry(pi)
        value == typedInput(entry, context[pi[1]])
    IN (BothCases(entry) /\ entry.default = Undef /\ TypeOf(value) = "string") =>
         OutputOf(pi) = Str(toUpperCase(value.s))

\* C13: with uppercase and lowercase both set and a string value, uppercase is applied
\* first and lowercase, applied to the upper-cased string, wins: the entry resolves to
\* the lower-cased string, or to its default when that string is empty and a default
\* is defined.
C13_LowercaseWins ==
  \A pi \in ResolvedFields :
    LET entry == FieldEntry(pi)
        value == typedInput(entry, context[pi[1]])
    IN (BothCases(entry) /\ TypeOf(value) = "string") =>
         /\ resolveEntry(entry, context[pi[1]]) =
              IF value.s = <<>> /\ entry.default # Undef THEN entry.default
              ELSE Str(toLowerCase(value.s))
         /\ OutputOf(pi) = resolveEntry(entry, context[pi[1]])

\* an entry with both flags whose path resolves to "A" is output as "a"
C13_Witness ==
  \E pi \in ResolvedFields :
    /\ context[pi[1]] = Ctx1
    /\ BothCases(FieldEntry(pi))
    /\ FieldEntry(pi).path = P_bc
    /\ typedInput(FieldEntry(pi), Ctx1) = Str(<<"A">>)
    /\ OutputOf(pi) = Str(<<"a">>)

IsEmpty(value) == IsNullish(value) \/ value = Str(<<>>)

\* C14: an untyped structured entry without explicit value and with a default
\* resolves to the default exactly when its value after base value, format, prefix,
\* suffix, trim and case steps is null, undefined or "", and to that value otherwise;
\* when the base value is already null, undefined or "", the result is the default
\* itself, with no prefix or suffix attached.
C14_GenericDefault ==
  \A pi \in ResolvedFields :
    LET entry == FieldEntry(pi)
        ctx == context[pi[1]]
        value == applyCase(typedInput(entry, ctx), entry)
        result == resolveEntry(entry, ctx)
    IN (/\ IsStructured(entry) /\ entry.value = Undef
        /\ ~IsCheckbox(entry) /\ ~IsRadio(entry)
        /\ entry.default # Undef) =>
         /\ result = IF IsEmpty(value) THEN entry.default ELSE value
         /\ IsEmpty(baseValue(entry, ctx)) => result = entry.default
         /\ OutputOf(pi) = IF IsNullish(result) THEN Undef ELSE result

\* {path: "missing.key", prefix: "p ", suffix: " s", default: "N/A"} is output as
\* "N/A"
C14_Witness ==
  \E pi \in ResolvedFields :
    /\ context[pi[1]] = Ctx1
    /\ FieldEntry(pi) = [EmptyEntry EXCEPT !.path = P_missingKey, !.prefix = Str(<<"p", " ">>),
                                           !.suffix = Str(<<" ", "s">>),
                                           !.default = Str(<<"N", "/", "A">>)]
    /\ OutputOf(pi) = Str(<<"N", "/", "A">>)

\* the own property names of a value that can be looked into: the keys of an
\* object, the indices and "length" of an array or a non-empty string
OwnKeys(v) ==
  IF ~Truthy(v) THEN {}
  ELSE CASE v.t = "object" -> Keys(v)
         [] v.t \in {"array", "string"} ->
              {LENGTH} \cup {NumToStr(i - 1) : i \in 1..Len(Elements(v))}
         [] OTHER -> {}

\* every <<segments, value>> with at most n segments such that value is reached
\* from v through own properties only
RECURSIVE Reachable(_, _)
Reachable(v, n) ==
  {<<(<<>>), v>>} \cup
    IF n = 0 THEN {}
    ELSE UNION {{<<(<<k>>) \o r[1], r[2]>> : r \in Reachable(GetOwn(v, k), n - 1)} :
                k \in OwnKeys(v)}

\* C15: a path (a string shorthand) resolves to the value reached by following every
\* one of its segments through own properties of the context, and to undefined when
\* there is no such value: never to a value reached by some of the segments only;
\* with an empty or missing context, or an empty path, it resolves to undefined.
C15_PathAllOrNothing ==
  \A pi \in ResolvedFields :
    LET entry == FieldEntry(pi)
        ctx == context[pi[1]]
        segments == split(entry.s)
        hits == {r \in Reachable(ctx, Len(segments)) : r[1] = segments}
        found == IF ~Truthy(ctx) \/ entry.s = <<>> \/ hits = {} THEN Undef
                 ELSE (CHOOSE r \in hits : TRUE)[2]
    IN entry.t = "string" =>
         /\ getPathValue(ctx, entry) = found
         /\ OutputOf(pi) = IF IsNullish(found) THEN Undef ELSE found

\* the path "b.m" resolves to nothing in a context that has an object b without m
C15_Witness ==
  \E pi \in ResolvedFields :
    /\ context[pi[1]] = Ctx1
    /\ FieldEntry(pi) = Str(<<"b", ".", "m">>)
    /\ Get(Ctx1, <<"b">>) = Obj(<< <<(<<"c">>), Str(<<"A">>)>> >>)
    /\ getPathValue(Ctx1, P_bc) = Str(<<"A">>)
    /\ FieldName(pi) \notin Keys(output[pi[1]])

\* C16: formatValue returns the value unchanged when it is null, undefined or "",
\* when the format is neither DATE_DDMMYYYY nor DATE_ISO, or when the value does not
\* parse as a date; an entry with nothing but a path and such a format is output as
\* the (trimmed) value of its path.
C16_FormatNoOp ==
  \A pi \in ResolvedFields :
    LET entry == FieldEntry(pi)
        ctx == context[pi[1]]
        value == baseValue(entry, ctx)
        noop == \/ IsEmpty(value)
                \/ entry.format \notin {Str(DATE_DDMMYYYY), Str(DATE_ISO)}
                \/ ~newDate(value).valid
    IN (IsStructured(entry) /\ entry.value = Undef /\ entry.format # Undef /\ noop) =>
         /\ formatValue(value, entry.format) = value
         /\ (/\ entry.prefix = Undef /\ entry.suffix = Undef /\ entry.type = Undef
             /\ entry.default = Undef) =>
              OutputOf(pi) = IF IsNullish(value) THEN Undef ELSE applyTrim(value, entry)

\* a date format leaves a string that is no date as it is
C16_Witness ==
  \E pi \in ResolvedFields :
    /\ context[pi[1]] = Ctx2
    /\ FieldEntry(pi) = [EmptyEntry EXCEPT !.path = P_a, !.format = Str(DATE_ISO)]
    /\ ~newDate(baseValue(FieldEntry(pi), Ctx2)).valid
    /\ OutputOf(pi) = Str(<<"Y", "E", "S">>)

\* the strings of a sequence of values with sep between them
RECURSIVE Interleave(_, _)
Interleave(values, sep) ==
  IF Len(values) = 0 THEN <<>>
  ELSE IF Len(values) = 1 THEN String(values[1])
  ELSE Interleave(SubSeq(values, 1, Len(values) - 1), sep) \o sep \o String(values[Len(values)])

\* C17: an entry with paths takes as its base value the results of its path
\* definitions that are not null, undefined or "", in list order, joined by a newline
\* when join is not given, by nothing when join is falsy ("" or false), and by join
\* otherwise; null, never "", when no result remains.  An entry with nothing but
\* paths and join is output as that string, trimmed, and is absent when no result
\* remains.
C17_MultiPathJoin ==
  \A pi \in ResolvedFields :
    LET entry == FieldEntry(pi)
        ctx == context[pi[1]]
        results == [i \in 1..Len(entry.paths.a) |-> resolvePathDef(entry.paths.a[i], ctx)]
        kept == SelectSeq(results, LAMBDA v : ~IsEmpty(v))
        sep == IF entry.join = Undef THEN <<"\n">>
               ELSE IF entry.join \in {Str(<<>>), Bool(FALSE), Null, Num(0)} THEN <<>>
               ELSE String(entry.join)
        joined == IF Len(kept) = 0 THEN Null ELSE Str(Interleave(kept, sep))
    IN (IsStructured(entry) /\ entry.value = Undef /\ Truthy(entry.paths)) =>
         /\ buildFromPaths(entry.paths, entry.join, ctx) = joined
         /\ joined # Str(<<>>)
         /\ baseValue(entry, ctx) = joined
         /\ entry.default = Undef =>
              OutputOf(pi) = IF joined = Null THEN Undef ELSE Str(trim(joined.s))

\* paths [traveler.firstName, traveler.lastName] with join " " are output as
\* "Jane Doe"
C17_Witness ==
  \E pi \in ResolvedFields :
    /\ context[pi[1]] = Ctx2
    /\ FieldEntry(pi) = [EmptyEntry EXCEPT !.paths = Arr(<<P_firstName, P_lastName>>),
                                           !.join = Str(<<" ">>)]
    /\ OutputOf(pi) = Str(<<"J", "a", "n", "e", " ", "D", "o", "e">>)

\* C18: a checkbox entry without explicit value is always output, as a boolean: with
\* equals defined, whether its value is strictly equal to equals (truthyValues does
\* not count); else with truthyValues and a value that is neither null nor undefined,
\* whether the lower-cased string of the value is a lower-cased element of
\* truthyValues; else whether the value is truthy.  With a missing path it is output
\* as false.
C18_CheckboxPrecedence ==
  \A pi \in ResolvedFields :
    LET entry == FieldEntry(pi)
        ctx == context[pi[1]]
        value == typedInput(entry, ctx)
        out == OutputOf(pi)
        listed == {toLowerCase(entry.truthyValues.a[i].s) : i \in 1..Len(entry.truthyValues.a)}
    IN IsCheckbox(entry) =>
         /\ out \in {Bool(TRUE), Bool(FALSE)}
         /\ out = Bool(TRUE) <=>
              IF entry.equals # Undef THEN IsPrimitive(value) /\ value = entry.equals
              ELSE IF entry.truthyValues # Undef /\ ~IsNullish(value)
                   THEN toLowerCase(String(value)) \in listed
                   ELSE value \notin {Undef, Null, Bool(FALSE), Num(0), Str(<<>>)}
         /\ (PathMissing(entry, ctx) /\ ~Truthy(entry.paths)) => out = Bool(FALSE)

\* equals: true and truthyValues ["yes", "on"] on the value "YES" are output as
\* false: equals decides, truthyValues is not looked at
C18_Witness ==
  \E pi \in ResolvedFields :
    /\ context[pi[1]] = Ctx2
    /\ FieldEntry(pi) =
         [EmptyEntry EXCEPT !.type = Str(CHECKBOX), !.path = P_a, !.equals = Bool(TRUE),
                            !.truthyValues = Arr(<<Str(<<"y", "e", "s">>), Str(<<"o", "n">>)>>)]
    /\ typedInput(FieldEntry(pi), Ctx2) = Str(<<"Y", "E", "S">>)
    /\ OutputOf(pi) = Bool(FALSE)

\* the map of a radio entry, empty when it has none
MapOf(entry) == IF Truthy(entry.map) THEN entry.map ELSE Obj(<<>>)

\* the values of the map of a radio entry
MapValues(entry) == {MapOf(entry).o[i][2] : i \in 1..Len(MapOf(entry).o)}

\* entry.default ?? other
DefaultOr(entry, other) == IF IsNullish(entry.default) THEN other ELSE entry.default

\* the value the later-iterated key that folds to the lower-cased value maps to,
\* undefined when caseInsensitive is not set, the value is no string or no key folds
\* to it
FoldedValue(entry, value) ==
  IF Truthy(entry.caseInsensitive) /\ TypeOf(value) = "string"
       /\ FoldedHits(MapOf(entry), toLowerCase(value.s)) # {}
  THEN MapOf(entry).o[Max(FoldedHits(MapOf(entry), toLowerCase(value.s)))][2]
  ELSE Undef

\* no key of the map matches the value, exactly or (caseInsensitive) folded
NoKeyMatches(entry, value) ==
  /\ ~HasOwn(MapOf(entry), String(value))
  /\ (Truthy(entry.caseInsensitive) /\ TypeOf(value) = "string") =>
       FoldedHits(MapOf(entry), toLowerCase(value.s)) = {}

====
